---- MODULE Spec2Model ----
(***************************************************************************)
(* A model of github.com/gostalt/collection: the generic collection[T],    *)
(* a struct holding one Go slice (`contents`).  A Go slice is a view       *)
(* (array, offset, length) on a backing array whose capacity may exceed   *)
(* the length, so the model keeps a heap of backing arrays and lets every *)
(* collection value be a slice header into it.                            *)
(***************************************************************************)
EXTENDS Integers, Sequences, FiniteSets, TLC

\* ---------------------------------------------------------------- bounds
MaxLen == 2      \* longest slice literal handed to From, most values appended
MaxOps == 2      \* library calls made by one run of the client program
MaxItems == 3    \* longest array behind the collection that Chunk, Join, ... read
IntBits == 4     \* width of int, scaled down from 64 bits

\* *new(T): the zero value of the element type.
Zero == 0
\* the element values the client uses (T = int in the tests)
Values == {Zero, 1, 2}
\* the collection variables of the client program, and those it assigns
\* the collection a call returns to
Names == {"c", "a", "b"}
Results == {"a", "b"}
\* the indexes and counts the client passes: negative, in range, equal to
\* the length, beyond the length
Indexes == (0 - 1)..(MaxLen + 1)
\* the spare capacity append's reallocation may leave behind the new length
Spares == {0, 1}

Max(x, y) == IF x >= y THEN x ELSE y
Min(x, y) == IF x <= y THEN x ELSE y

SeqsUpTo(S, n) == UNION {[1..k -> S] : k \in 0..n}

VARIABLES
  heap,     \* the backing arrays: heap[id] is the array's cells, Len = capacity
  vars,     \* the client's collection variables: name -> slice header
  last,     \* the last library call: its arguments and what it returned
  ops,      \* number of library calls made so far
  pc,       \* "run", or "panicked" once a call has panicked (run-time abort)
  chPc,     \* Chan(): where the producer goroutine is
  chI,      \* Chan(): the producer's loop variable i
  chVal,    \* Chan(): the value the producer is sending
  chCons,   \* where the consumer of the channel is
  chVals,   \* the values the consumer has received, in order
  chRecvs,  \* the consumer's loop variable: receives done
  chQuota,  \* the number of receives the consumer performs before it stops
  ctxDone,  \* EachCtx(): the context has been cancelled (Done is closed)
  ePc,      \* EachCtx(): where the loop is
  eI,       \* EachCtx(): the range loop's index
  visited,  \* the <<index, value>> pairs passed to the callback, in order
  cancelAt  \* the index at which the callback calls cancel(), or -1

vars_heap == <<heap, vars, last, ops, pc>>
vars_chan == <<chPc, chI, chVal, chCons, chVals, chRecvs, chQuota>>
vars_ctx == <<ctxDone, ePc, eI, visited, cancelAt>>
allvars == <<heap, vars, last, ops, pc, chPc, chI, chVal, chCons, chVals,
             chRecvs, chQuota, ctxDone, ePc, eI, visited, cancelAt>>

\* ------------------------------------------------------- slices and heap
\* A slice header: backing array id, 0-based offset of its first element,
\* length.  Its capacity is what is left of the array after the offset.
Slice(arr, off, len) == [arr |-> arr, off |-> off, len |-> len]

\* the elements a slice shows of heap h
Elems(h, s) == [k \in 1..s.len |-> h[s.arr][s.off + k]]
Cap(h, s) == Len(h[s.arr]) - s.off

\* make([]T, n): a fresh zeroed array of exactly n cells
ZeroArray(n) == [k \in 1..n |-> Zero]

\* All returns the underlying data for the collection.
All(c) == c

\* Count returns the total length of the collection.
Count(c) == All(c).len

\* Empty returns true if the collection contains no items.
Empty(c) == IF Count(c) = 0 THEN TRUE ELSE FALSE

\* s[i]: Go's index expression panics unless 0 <= i < len(s)
InRange(s, i) == 0 <= i /\ i < s.len

\* ------------------------------------------------------------ SafeAt, At
\* The outcome of a read: value, error, and whether the call panicked.
ReadOut(val, err, panic) == [val |-> val, err |-> err, panic |-> panic]

SafeAt(h, c, i) ==
  IF Empty(c) \/ Count(c) < i
    THEN ReadOut(Zero, "ErrNoItem", FALSE)
    ELSE IF InRange(All(c), i)
      THEN ReadOut(h[c.arr][c.off + i + 1], "nil", FALSE)
      ELSE ReadOut(Zero, "nil", TRUE)    \* index out of range: panic

At(h, c, i) ==
  LET r == SafeAt(h, c, i) IN ReadOut(r.val, "nil", r.panic)

\* ------------------------------------------------------- Set and SafeSet
\* The outcome of a call that may write: the heap and the receiver's slice
\* header after it, the returned collection (where there is one), the error.
WriteOut(h, recv, ret, err, panic) ==
  [heap |-> h, recv |-> recv, ret |-> ret, err |-> err, panic |-> panic]

\* c.contents[index] = value
Store(h, c, index, value) ==
  [h EXCEPT ![c.arr] = [@ EXCEPT ![c.off + index + 1] = value]]

\* new := make([]T, index+1); copy of c's elements; new[index] = value
Grown(h, c, index, value) ==
  [k \in 1..(index + 1) |->
     IF k = index + 1 THEN value
     ELSE IF k <= c.len THEN h[c.arr][c.off + k] ELSE Zero]

Set(h, c, index, value) ==
  IF Count(c) >= index
    THEN IF InRange(c, index)
      THEN WriteOut(Store(h, c, index, value), c, c, "nil", FALSE)
      ELSE WriteOut(h, c, c, "nil", TRUE)   \* index out of range: panic
    ELSE WriteOut(Append(h, Grown(h, c, index, value)),
                  Slice(Len(h) + 1, 0, index + 1), c, "nil", FALSE)

SafeSet(h, c, index, value) ==
  IF Count(c) < index
    THEN WriteOut(h, c, c, "ErrIndexOutOfRange", FALSE)
    ELSE IF InRange(c, index)
      THEN WriteOut(Store(h, c, index, value), c, c, "nil", FALSE)
      ELSE WriteOut(h, c, c, "nil", TRUE)   \* index out of range: panic

\* -------------------------------------------------------- Append, Concat
\* append(s, xs...) of Go: in place when the capacity allows, else on a
\* fresh array of capacity len(s)+len(xs)+spare.  Yields the heap and the
\* slice append returns.
GoAppend(h, s, xs, spare) ==
  IF Len(xs) = 0 THEN [heap |-> h, s |-> s]
  ELSE IF s.len + Len(xs) <= Cap(h, s)
    THEN [heap |-> [h EXCEPT ![s.arr] =
                      [k \in 1..Len(@) |->
                         IF k > s.off + s.len /\ k <= s.off + s.len + Len(xs)
                           THEN xs[k - s.off - s.len] ELSE @[k]]],
          s |-> Slice(s.arr, s.off, s.len + Len(xs))]
    ELSE [heap |-> Append(h, Elems(h, s) \o xs \o ZeroArray(spare)),
          s |-> Slice(Len(h) + 1, 0, s.len + Len(xs))]

\* an Append with a pointer receiver: the caller's collection is extended too
AppendOpOnPointer(h, c, value, spare) ==
  LET r == GoAppend(h, All(c), value, spare) IN
    WriteOut(r.heap, r.s, r.s, "nil", FALSE)

\* Append has a value receiver: c.contents = append(...) assigns to the
\* callee's copy of the struct, the caller's collection keeps its header.
AppendOp(h, c, value, spare) ==
  LET r == GoAppend(h, All(c), value, spare) IN
    WriteOut(r.heap, c, r.s, "nil", FALSE)

\* a Concat with receiver and argument exchanged: val.Append(c.All()...)
ConcatOpSwapped(h, c, val, spare) ==
  LET r == GoAppend(h, All(val), Elems(h, All(c)), spare) IN
    WriteOut(r.heap, c, r.s, "nil", FALSE)

ConcatOp(h, c, val, spare) == AppendOp(h, c, Elems(h, All(val)), spare)

\* ------------------------------------------------ Before, After, Split, Pop
\* s[:i] panics unless 0 <= i <= cap(s); s[i:] unless 0 <= i <= len(s).
ViewOut(s, panic) == [s |-> s, panic |-> panic]

Before(h, c, i) ==
  IF 0 <= i /\ i <= Cap(h, All(c))
    THEN ViewOut(Slice(c.arr, c.off, i), FALSE)
    ELSE ViewOut(c, TRUE)

After(h, c, i) ==
  IF 0 <= i /\ i <= Count(c)
    THEN ViewOut(Slice(c.arr, c.off + i, c.len - i), FALSE)
    ELSE ViewOut(c, TRUE)

\* a Split whose second part starts after the element at the index
SplitDroppingPivot(h, c, i) == <<Before(h, c, i), After(h, c, i + 1)>>

Split(h, c, i) == <<Before(h, c, i), After(h, c, i)>>

\* a Pop with a value receiver: the caller's collection keeps its length
PopOnValue(h, c, count) ==
  LET split == Split(h, c, Count(c) - count)
      cut == Before(h, c, Count(c) - count)
  IN IF split[1].panic \/ split[2].panic \/ cut.panic
       THEN WriteOut(h, c, c, "nil", TRUE)
       ELSE WriteOut(h, c, split[2].s, "nil", FALSE)

\* Pop has a pointer receiver: it re-slices the caller's collection.
Pop(h, c, count) ==
  LET split == Split(h, c, Count(c) - count)
      cut == Before(h, c, Count(c) - count)
  IN IF split[1].panic \/ split[2].panic \/ cut.panic
       THEN WriteOut(h, c, c, "nil", TRUE)
       ELSE WriteOut(h, cut.s, split[2].s, "nil", FALSE)

\* ---------------------------------------------------------- call records
NoSeq == << >>
Call(op, recv, dst, i, v, xs, pre, post, ret, val, err, panic) ==
  [op |-> op, recv |-> recv, dst |-> dst, i |-> i, v |-> v, xs |-> xs,
   pre |-> pre, post |-> post, ret |-> ret, val |-> val, err |-> err,
   panic |-> panic]

NoCall ==
  Call("none", "c", "c", 0, Zero, NoSeq, NoSeq, NoSeq, NoSeq, Zero, "nil", FALSE)

Running == pc = "run" /\ ops < MaxOps
PcAfter(panic) == IF panic THEN "panicked" ELSE "run"

\* ------------------------------------------------------------------ Init
\* A variable the client has not assigned yet holds no collection.
NoColl == Slice(0, 0, 0)
Defined(n) == vars[n] # NoColl
Receivers == {n \in Names : Defined(n)}
\* a returned collection goes to a result variable already in use or to the
\* next unused one (a before b)
Targets ==
  {n \in Results : Defined(n)} \cup
  (IF ~Defined("a") THEN {"a"} ELSE IF ~Defined("b") THEN {"b"} ELSE {})

\* From returns a new collection from the provided slice: c = From(buf[lo:hi])
\* for a caller's array buf, so c may start inside buf and end before its end.
From(slice) == slice

InitHeap ==
  \E buf \in SeqsUpTo(Values, MaxLen) :
    \E lo \in 0..Len(buf) :
      \E hi \in lo..Len(buf) :
        /\ heap = <<buf>>
        /\ vars = [n \in Names |->
                     IF n = "c" THEN From(Slice(1, lo, hi - lo)) ELSE NoColl]
        /\ last = NoCall
        /\ ops = 0
        /\ pc = "run"

InitChan ==
  /\ chPc = "idle" /\ chI = 0 /\ chVal = Zero /\ chCons = "idle"
  /\ chVals = << >> /\ chRecvs = 0 /\ chQuota = 0

InitCtx ==
  /\ ctxDone = FALSE /\ ePc = "idle" /\ eI = 0 /\ visited = << >>
  /\ cancelAt = 0 - 1

Init == InitHeap /\ InitChan /\ InitCtx

\* --------------------------------------------------------------- actions
DoSafeAt ==
  /\ Running
  /\ \E n \in Receivers, i \in Indexes :
       LET r == SafeAt(heap, vars[n], i) IN
         /\ last' = Call("SafeAt", n, n, i, Zero, NoSeq, Elems(heap, vars[n]),
                         Elems(heap, vars[n]), NoSeq, r.val, r.err, r.panic)
         /\ pc' = PcAfter(r.panic)
  /\ ops' = ops + 1
  /\ UNCHANGED <<heap, vars, vars_chan, vars_ctx>>

DoAt ==
  /\ Running
  /\ \E n \in Receivers, i \in Indexes :
       LET r == At(heap, vars[n], i) IN
         /\ last' = Call("At", n, n, i, Zero, NoSeq, Elems(heap, vars[n]),
                         Elems(heap, vars[n]), NoSeq, r.val, r.err, r.panic)
         /\ pc' = PcAfter(r.panic)
  /\ ops' = ops + 1
  /\ UNCHANGED <<heap, vars, vars_chan, vars_ctx>>

DoSet ==
  /\ Running
  /\ \E n \in Receivers, i \in Indexes, v \in Values :
       LET r == Set(heap, vars[n], i, v) IN
         /\ heap' = r.heap
         /\ vars' = [vars EXCEPT ![n] = r.recv]
         /\ last' = Call("Set", n, n, i, v, NoSeq, Elems(heap, vars[n]),
                         Elems(r.heap, r.recv), NoSeq, Zero, r.err, r.panic)
         /\ pc' = PcAfter(r.panic)
  /\ ops' = ops + 1
  /\ UNCHANGED <<vars_chan, vars_ctx>>

DoSafeSet ==
  /\ Running
  /\ \E n \in Receivers, i \in Indexes, v \in Values :
       LET r == SafeSet(heap, vars[n], i, v) IN
         /\ heap' = r.heap
         /\ vars' = [vars EXCEPT ![n] = r.recv]
         /\ last' = Call("SafeSet", n, n, i, v, NoSeq, Elems(heap, vars[n]),
                         Elems(r.heap, r.recv), NoSeq, Zero, r.err, r.panic)
         /\ pc' = PcAfter(r.panic)
  /\ ops' = ops + 1
  /\ UNCHANGED <<vars_chan, vars_ctx>>

DoAppend ==
  /\ Running
  /\ \E n \in Receivers, d \in Targets, xs \in SeqsUpTo(Values, MaxLen),
        spare \in Spares :
       LET r == AppendOp(heap, vars[n], xs, spare) IN
         /\ heap' = r.heap
         /\ vars' = [vars EXCEPT ![n] = r.recv, ![d] = r.ret]
         /\ last' = Call("Append", n, d, 0, Zero, xs, Elems(heap, vars[n]),
                         Elems(r.heap, r.recv), Elems(r.heap, r.ret), Zero,
                         r.err, r.panic)
         /\ pc' = PcAfter(r.panic)
  /\ ops' = ops + 1
  /\ UNCHANGED <<vars_chan, vars_ctx>>

DoConcat ==
  /\ Running
  /\ \E n \in Receivers, o \in Receivers, d \in Targets, spare \in Spares :
       LET r == ConcatOp(heap, vars[n], vars[o], spare) IN
         /\ heap' = r.heap
         /\ vars' = [vars EXCEPT ![n] = r.recv, ![d] = r.ret]
         /\ last' = Call("Concat", n, d, 0, Zero, Elems(heap, vars[o]),
                         Elems(heap, vars[n]), Elems(r.heap, r.recv),
                         Elems(r.heap, r.ret), Zero, r.err, r.panic)
         /\ pc' = PcAfter(r.panic)
  /\ ops' = ops + 1
  /\ UNCHANGED <<vars_chan, vars_ctx>>

DoPop ==
  /\ Running
  /\ \E n \in Receivers, d \in Targets, count \in Indexes :
       LET r == Pop(heap, vars[n], count) IN
         /\ heap' = r.heap
         /\ vars' = IF r.panic THEN vars
                    ELSE [vars EXCEPT ![n] = r.recv, ![d] = r.ret]
         /\ last' = Call("Pop", n, d, count, Zero, NoSeq, Elems(heap, vars[n]),
                         Elems(r.heap, r.recv), Elems(r.heap, r.ret), Zero,
                         r.err, r.panic)
         /\ pc' = PcAfter(r.panic)
  /\ ops' = ops + 1
  /\ UNCHANGED <<vars_chan, vars_ctx>>

Next ==
  \/ DoSafeAt
  \/ DoAt
  \/ DoSet
  \/ DoSafeSet
  \/ DoAppend
  \/ DoConcat
  \/ DoPop

Spec == Init /\ [][Next]_allvars


\* ------------------------------------------------- the copying combinators
\* Make returns a new empty collection: contents []T{} on an array of its own
Make(h) == [heap |-> Append(h, << >>), s |-> Slice(Len(h) + 1, 0, 0)]

\* the predicates and the functions the client passes to Filter and Map
Predicates == {"isTwo", "evenIndex", "notZero"}
Holds(p, i, v) ==
  IF p = "isTwo" THEN v = 2
  ELSE IF p = "evenIndex" THEN i % 2 = 0
  ELSE v # Zero
Functions == {"next", "index"}
Apply(f, i, v) ==
  IF f = "next" THEN (v + 1) % 3 ELSE i % 3

\* HasNo with the predicate `value == v`, as Unique and Diff call it
HasNoEqual(h, c, v) == \A k \in 1..Count(c) : Elems(h, All(c))[k] # v

\* what a call that returns a new collection yields: the heap after it, the
\* returned collection, whether it panicked
NewOut(h, s, panic) == [heap |-> h, s |-> s, panic |-> panic]

\* for i, v := range c.All(): keep v when the predicate holds
RECURSIVE FilterLoop(_, _, _, _, _, _)
FilterLoop(h, c, new, p, k, spare) ==
  IF k >= Count(c) THEN NewOut(h, new, FALSE)
  ELSE LET v == h[c.arr][c.off + k + 1] IN
    IF Holds(p, k, v)
      THEN LET r == GoAppend(h, All(new), <<v>>, spare) IN
             FilterLoop(r.heap, c, r.s, p, k + 1, spare)
      ELSE FilterLoop(h, c, new, p, k + 1, spare)

Filter(h, c, p, spare) ==
  LET m == Make(h) IN FilterLoop(m.heap, c, m.s, p, 0, spare)

RECURSIVE MapLoop(_, _, _, _, _, _)
MapLoop(h, c, new, f, k, spare) ==
  IF k >= Count(c) THEN NewOut(h, new, FALSE)
  ELSE LET r == AppendOp(h, new, <<Apply(f, k, h[c.arr][c.off + k + 1])>>,
                         spare) IN
    MapLoop(r.heap, c, r.ret, f, k + 1, spare)

Map(h, c, f, spare) ==
  LET m == Make(h) IN MapLoop(m.heap, c, m.s, f, 0, spare)

\* a Unique that only drops a value equal to the one kept just before it
RECURSIVE UniqueLoopAdjacent(_, _, _, _, _)
UniqueLoopAdjacent(h, c, new, k, spare) ==
  IF k >= Count(c) THEN NewOut(h, new, FALSE)
  ELSE LET v == h[c.arr][c.off + k + 1] IN
    IF new.len = 0 \/ h[new.arr][new.off + new.len] # v
      THEN LET r == GoAppend(h, new, <<v>>, spare) IN
             UniqueLoopAdjacent(r.heap, c, r.s, k + 1, spare)
      ELSE UniqueLoopAdjacent(h, c, new, k + 1, spare)

UniqueAdjacent(h, c, spare) ==
  LET m == Make(h) IN UniqueLoopAdjacent(m.heap, c, m.s, 0, spare)

RECURSIVE UniqueLoop(_, _, _, _, _)
UniqueLoop(h, c, new, k, spare) ==
  IF k >= Count(c) THEN NewOut(h, new, FALSE)
  ELSE LET v == h[c.arr][c.off + k + 1] IN
    IF HasNoEqual(h, new, v)
      THEN LET r == GoAppend(h, new, <<v>>, spare) IN
             UniqueLoop(r.heap, c, r.s, k + 1, spare)
      ELSE UniqueLoop(h, c, new, k + 1, spare)

Unique(h, c, spare) ==
  LET m == Make(h) IN UniqueLoop(m.heap, c, m.s, 0, spare)

\* Diff is Filter with the predicate `comp.HasNo(value == v)`
RECURSIVE DiffLoop(_, _, _, _, _, _)
DiffLoop(h, c, new, comp, k, spare) ==
  IF k >= Count(c) THEN NewOut(h, new, FALSE)
  ELSE LET v == h[c.arr][c.off + k + 1] IN
    IF HasNoEqual(h, comp, v)
      THEN LET r == GoAppend(h, All(new), <<v>>, spare) IN
             DiffLoop(r.heap, c, r.s, comp, k + 1, spare)
      ELSE DiffLoop(h, c, new, comp, k + 1, spare)

Diff(h, c, comp, spare) ==
  LET m == Make(h) IN DiffLoop(m.heap, c, m.s, comp, 0, spare)

\* c.Each(func(i, value) { new.Set(c.Count()-1-i, value) })
RECURSIVE ReverseLoop(_, _, _, _)
ReverseLoop(h, c, new, k) ==
  IF k >= Count(c) THEN NewOut(h, new, FALSE)
  ELSE LET r == Set(h, new, Count(c) - 1 - k, h[c.arr][c.off + k + 1]) IN
    IF r.panic THEN NewOut(h, new, TRUE)
    ELSE ReverseLoop(r.heap, c, r.recv, k + 1)

\* a Reverse whose loop stores element i at index Count-i, one too far
RECURSIVE ReverseLoopShifted(_, _, _, _)
ReverseLoopShifted(h, c, new, k) ==
  IF k >= Count(c) THEN NewOut(h, new, FALSE)
  ELSE LET r == Set(h, new, (Count(c) - k) % Count(c),
                    h[c.arr][c.off + k + 1]) IN
    IF r.panic THEN NewOut(h, new, TRUE)
    ELSE ReverseLoopShifted(r.heap, c, r.recv, k + 1)

ReverseShifted(h, c) ==
  ReverseLoopShifted(Append(h, ZeroArray(Count(c))), c,
                     From(Slice(Len(h) + 1, 0, Count(c))), 0)

\* new := From(make([]T, c.Count())), then the loop
Reverse(h, c) ==
  ReverseLoop(Append(h, ZeroArray(Count(c))), c,
              From(Slice(Len(h) + 1, 0, Count(c))), 0)

\* Prepend: From(value).Append(c.All()...); value is the variadic slice
Prepend(h, c, value, spare) ==
  LET r == AppendOp(h, From(value), Elems(h, All(c)), spare) IN
    NewOut(r.heap, r.ret, FALSE)

\* a call that returns a new collection, assigned to variable d
Returned(op, n, d, xs, r) ==
  /\ heap' = r.heap
  /\ vars' = IF r.panic THEN vars ELSE [vars EXCEPT ![d] = r.s]
  /\ last' = Call(op, n, d, 0, Zero, xs, Elems(heap, vars[n]),
                  Elems(r.heap, vars[n]), Elems(r.heap, r.s), Zero, "nil",
                  r.panic)
  /\ pc' = PcAfter(r.panic)
  /\ ops' = ops + 1
  /\ UNCHANGED <<vars_chan, vars_ctx>>

DoFilter ==
  /\ Running
  /\ \E n \in Receivers, d \in Targets, p \in Predicates, spare \in Spares :
       Returned("Filter", n, d, NoSeq, Filter(heap, vars[n], p, spare))

DoMap ==
  /\ Running
  /\ \E n \in Receivers, d \in Targets, f \in Functions, spare \in Spares :
       Returned("Map", n, d, NoSeq, Map(heap, vars[n], f, spare))

DoUnique ==
  /\ Running
  /\ \E n \in Receivers, d \in Targets, spare \in Spares :
       Returned("Unique", n, d, NoSeq, Unique(heap, vars[n], spare))

DoDiff ==
  /\ Running
  /\ \E n \in Receivers, o \in Receivers, d \in Targets, spare \in Spares :
       Returned("Diff", n, d, Elems(heap, vars[o]),
                Diff(heap, vars[n], vars[o], spare))

DoReverse ==
  /\ Running
  /\ \E n \in Receivers, d \in Targets :
       Returned("Reverse", n, d, NoSeq, Reverse(heap, vars[n]))

\* c.Prepend(x, y): the variadic slice is a new array holding the arguments
DoPrependValues ==
  /\ Running
  /\ \E n \in Receivers, d \in Targets, xs \in SeqsUpTo(Values, MaxLen),
        spare \in Spares :
       Returned("Prepend", n, d, xs,
                Prepend(Append(heap, xs), vars[n],
                        Slice(Len(heap) + 1, 0, Len(xs)), spare))

\* c.Prepend(o.All()...): the variadic slice is the caller's slice itself
DoPrependSlice ==
  /\ Running
  /\ \E n \in Receivers, o \in Receivers, d \in Targets, spare \in Spares :
       Returned("Prepend", n, d, Elems(heap, vars[o]),
                Prepend(heap, vars[n], All(vars[o]), spare))

NextCopy ==
  \/ DoFilter
  \/ DoMap
  \/ DoUnique
  \/ DoDiff
  \/ DoReverse
  \/ DoPrependValues
  \/ DoPrependSlice
  \/ DoSet
  \/ DoSafeSet

SpecCopy == Init /\ [][NextCopy]_allvars

\* ------------------------------------------------ Chunk, Split, Join
\* the whole part of n/d, in place of the ceiling
Floor(n, d) == n \div d

\* int(math.Ceil(float64(n) / float64(d))): the least integer not below n/d
Ceil(n, d) == CHOOSE q \in 0..n : q * d >= n /\ (q - 1) * d < n

\* the inner loop of Chunk: chunk i takes c.At(i*per + j) for j < per until
\* the offset leaves the collection
RECURSIVE ChunkFill(_, _, _, _, _, _)
ChunkFill(h, c, per, i, j, chunk) ==
  IF j >= per THEN [chunk |-> chunk, panic |-> FALSE]
  ELSE LET offset == i * per + j IN
    IF offset >= Count(c) THEN [chunk |-> chunk, panic |-> FALSE]
    ELSE LET r == At(h, c, offset) IN
      IF r.panic THEN [chunk |-> chunk, panic |-> TRUE]
      ELSE ChunkFill(h, c, per, i, j + 1, Append(chunk, r.val))

Chunk(h, c, per) ==
  LET count == Ceil(Count(c), per)
      filled == [i \in 1..count |-> ChunkFill(h, c, per, i - 1, 0, << >>)]
  IN [chunks |-> [i \in 1..count |-> filled[i].chunk],
      panic |-> \E i \in 1..count : filled[i].panic]

\* the chunk sizes the client asks for
Sizes == 1..(MaxItems + 1)

\* strings are sequences of characters
Digits == <<"0", "1", "2", "3", "4", "5", "6", "7", "8", "9">>
RECURSIVE Sprintf(_)
Sprintf(v) ==
  IF v < 0 THEN <<"-">> \o Sprintf(0 - v)
  ELSE IF v < 10 THEN <<Digits[v + 1]>>
  ELSE Sprintf(v \div 10) \o <<Digits[(v % 10) + 1]>>

\* join.Method values: CommaSeparatedJoin, ListJoin, and two custom ones
Method(between, final) == [Between |-> between, Final |-> final]
CommaSeparatedJoin == Method(<<",", " ">>, << >>)
ListJoin == Method(<<",", " ">>, <<" ", "a", "n", "d", " ">>)
Methods ==
  {CommaSeparatedJoin, ListJoin, Method(<< >>, << >>), Method(<< >>, <<"&">>)}

RECURSIVE JoinLoop(_, _, _, _, _)
JoinLoop(h, c, format, i, resp) ==
  IF i >= Count(c) THEN resp
  ELSE LET resp1 == resp \o Sprintf(h[c.arr][c.off + i + 1]) IN
    IF i = Count(c) - 1 THEN JoinLoop(h, c, format, i + 1, resp1)
    ELSE IF i = Count(c) - 2
      THEN IF format.Final # << >>
             THEN JoinLoop(h, c, format, i + 1, resp1 \o format.Final)
             ELSE JoinLoop(h, c, format, i + 1, resp1 \o format.Between)
      ELSE JoinLoop(h, c, format, i + 1, resp1 \o format.Between)

\* a Join that never uses Final
JoinBetweenOnly(h, c, format) ==
  JoinLoop(h, c, Method(format.Between, << >>), 0, << >>)

Join(h, c, format) == JoinLoop(h, c, format, 0, << >>)

DoChunk ==
  /\ Running
  /\ \E n \in Receivers, per \in Sizes :
       LET r == Chunk(heap, vars[n], per) IN
         /\ last' = Call("Chunk", n, n, per, Zero, NoSeq, Elems(heap, vars[n]),
                         Elems(heap, vars[n]), r.chunks, Zero, "nil", r.panic)
         /\ pc' = PcAfter(r.panic)
  /\ ops' = ops + 1
  /\ UNCHANGED <<heap, vars, vars_chan, vars_ctx>>

\* values := c.Split(i); a, b := values[0], values[1]
DoSplit ==
  /\ Running
  /\ \E n \in Receivers, i \in (0 - 1)..(MaxItems + 1) :
       LET r == Split(heap, vars[n], i)
           panic == r[1].panic \/ r[2].panic
       IN /\ vars' = IF panic THEN vars
                     ELSE [vars EXCEPT !["a"] = r[1].s, !["b"] = r[2].s]
          /\ last' = Call("Split", n, "a", i, Zero, NoSeq,
                          Elems(heap, vars[n]), Elems(heap, vars[n]),
                          IF panic THEN NoSeq
                          ELSE <<Elems(heap, r[1].s), Elems(heap, r[2].s)>>,
                          Zero, "nil", panic)
          /\ pc' = PcAfter(panic)
  /\ ops' = ops + 1
  /\ UNCHANGED <<heap, vars_chan, vars_ctx>>

DoJoin ==
  /\ Running
  /\ \E n \in Receivers, format \in Methods :
       last' = Call("Join", n, n, 0, format, NoSeq, Elems(heap, vars[n]),
                    Elems(heap, vars[n]), Join(heap, vars[n], format), Zero,
                    "nil", FALSE)
  /\ pc' = pc
  /\ ops' = ops + 1
  /\ UNCHANGED <<heap, vars, vars_chan, vars_ctx>>

\* c = From(buf[lo:hi]) for a caller's array of up to MaxItems elements
InitItems ==
  \E buf \in SeqsUpTo(Values, MaxItems) :
    \E lo \in 0..Len(buf) :
      \E hi \in lo..Len(buf) :
        /\ heap = <<buf>>
        /\ vars = [n \in Names |->
                     IF n = "c" THEN From(Slice(1, lo, hi - lo)) ELSE NoColl]
        /\ last = NoCall
        /\ ops = 0
        /\ pc = "run"

InitPure == InitItems /\ InitChan /\ InitCtx

NextPure ==
  \/ DoChunk
  \/ DoSplit
  \/ DoJoin
  \/ DoUnique
  \/ DoReverse

SpecPure == InitPure /\ [][NextPure]_allvars

\* ------------------------------------------------------------- FromRange
MinInt == 0 - 2 ^ (IntBits - 1)
MaxInt == 2 ^ (IntBits - 1) - 1
Ints == MinInt..MaxInt
\* int arithmetic wraps around
Wrap(x) == ((x - MinInt) % (2 ^ IntBits)) + MinInt
\* the longest []int that make can allocate: well below the largest int
MaxAlloc == 2 ^ (IntBits - 2)

\* for i := 0; i < len; i++ { c.Set(i, first+i) }
RECURSIVE RangeLoop(_, _, _, _, _)
RangeLoop(h, c, first, len, i) ==
  IF i >= len THEN NewOut(h, c, FALSE)
  ELSE LET r == Set(h, c, i, Wrap(first + i)) IN
    IF r.panic THEN NewOut(h, c, TRUE)
    ELSE RangeLoop(r.heap, r.recv, first, len, i + 1)

\* len := last - first + 1; c := FromNumeric(make([]int, len)); the loop.
\* make panics on a negative length and on one it cannot allocate.
Ascending(h, first, lst) ==
  LET len == Wrap(Wrap(lst - first) + 1) IN
    IF len < 0 \/ len > MaxAlloc THEN NewOut(h, NoColl, TRUE)
    ELSE RangeLoop(Append(h, ZeroArray(len)),
                   From(Slice(Len(h) + 1, 0, len)), first, len, 0)

\* a FromRange that forgets to reverse a descending range
FromRangeNoReverse(h, first, lst) ==
  Ascending(h, Min(first, lst), Max(first, lst))

FromRange(h, first, lst) ==
  LET desc == first > lst
      c == Ascending(h, Min(first, lst), Max(first, lst))
  IN IF c.panic \/ ~desc THEN c
     ELSE LET r == Reverse(c.heap, c.s) IN NewOut(r.heap, All(r.s), r.panic)

\* the program is c := collection.FromRange(first, last)
InitRange ==
  /\ heap = << >>
  /\ vars = [n \in Names |-> NoColl]
  /\ last = NoCall
  /\ ops = 0
  /\ pc = "run"
  /\ InitChan /\ InitCtx

DoFromRange ==
  /\ Running /\ ops = 0
  /\ \E first \in Ints, lst \in Ints :
       LET r == FromRange(heap, first, lst) IN
         /\ heap' = r.heap
         /\ vars' = [vars EXCEPT !["c"] = r.s]
         /\ last' = Call("FromRange", "c", "c", first, lst, NoSeq, NoSeq,
                         NoSeq, Elems(r.heap, r.s), Zero, "nil", r.panic)
         /\ pc' = PcAfter(r.panic)
  /\ ops' = ops + 1
  /\ UNCHANGED <<vars_chan, vars_ctx>>

NextRange == DoFromRange

SpecRange == InitRange /\ [][NextRange]_allvars

\* ------------------------------------------------------------------ Chan
\* ch := c.Chan() followed by a consumer loop that receives chQuota times
\* (`for i := 0; i < quota; i++ { v := <-ch; vals = append(vals, v) }`).
\* The channel is unbuffered: a send completes only together with a receive.
InitChanRun ==
  /\ InitHeap /\ InitCtx
  /\ chPc = "idle" /\ chI = 0 /\ chVal = Zero /\ chCons = "idle"
  /\ chVals = << >> /\ chRecvs = 0
  /\ chQuota \in 0..(MaxLen + 1)

\* ch := make(chan T); go func(ch, c){...}(ch, c); return ch
ChanCall ==
  /\ chPc = "idle"
  /\ chPc' = "loop" /\ chI' = 0 /\ chCons' = "check"
  /\ UNCHANGED <<chVal, chVals, chRecvs, chQuota, vars_heap, vars_ctx>>

\* i < c.Count()
ProducerLoop ==
  /\ chPc = "loop"
  /\ chPc' = IF chI < Count(vars["c"]) THEN "eval" ELSE "done"
  /\ UNCHANGED <<chI, chVal, chCons, chVals, chRecvs, chQuota, vars_heap,
                 vars_ctx>>

\* a producer that reads the collection from its far end
ProducerEvalBackwards ==
  /\ chPc = "eval"
  /\ LET r == At(heap, vars["c"], Count(vars["c"]) - 1 - chI) IN
       /\ chVal' = r.val
       /\ chPc' = IF r.panic THEN "panicked" ELSE "send"
  /\ UNCHANGED <<chI, chCons, chVals, chRecvs, chQuota, vars_heap, vars_ctx>>

\* the operand of the send statement: c.At(i)
ProducerEval ==
  /\ chPc = "eval"
  /\ LET r == At(heap, vars["c"], chI) IN
       /\ chVal' = r.val
       /\ chPc' = IF r.panic THEN "panicked" ELSE "send"
  /\ UNCHANGED <<chI, chCons, chVals, chRecvs, chQuota, vars_heap, vars_ctx>>

\* a send on a channel made with a buffer: it completes without a receiver
SendBuffered ==
  /\ chPc = "send"
  /\ chPc' = "incr"
  /\ chVals' = IF chCons = "recv" THEN Append(chVals, chVal) ELSE chVals
  /\ chCons' = IF chCons = "recv" THEN "next" ELSE chCons
  /\ UNCHANGED <<chI, chVal, chRecvs, chQuota, vars_heap, vars_ctx>>

\* ch <- v meets v := <-ch; the consumer runs vals = append(vals, v)
Rendezvous ==
  /\ chPc = "send" /\ chCons = "recv"
  /\ chVals' = Append(chVals, chVal)
  /\ chPc' = "incr" /\ chCons' = "next"
  /\ UNCHANGED <<chI, chVal, chRecvs, chQuota, vars_heap, vars_ctx>>

\* i++
ProducerIncr ==
  /\ chPc = "incr"
  /\ chI' = chI + 1 /\ chPc' = "loop"
  /\ UNCHANGED <<chVal, chCons, chVals, chRecvs, chQuota, vars_heap, vars_ctx>>

\* the consumer's loop condition, and its i++
ConsumerLoop ==
  /\ chCons = "check"
  /\ chCons' = IF chRecvs < chQuota THEN "recv" ELSE "done"
  /\ UNCHANGED <<chPc, chI, chVal, chVals, chRecvs, chQuota, vars_heap,
                 vars_ctx>>

ConsumerIncr ==
  /\ chCons = "next"
  /\ chRecvs' = chRecvs + 1 /\ chCons' = "check"
  /\ UNCHANGED <<chPc, chI, chVal, chVals, chQuota, vars_heap, vars_ctx>>

NextChan ==
  \/ ChanCall
  \/ ProducerLoop
  \/ ProducerEval
  \/ Rendezvous
  \/ ProducerIncr
  \/ ConsumerLoop
  \/ ConsumerIncr

SpecChan == InitChanRun /\ [][NextChan]_allvars

\* The Go scheduler runs every goroutine that is able to run.
FairSpecChan ==
  /\ SpecChan
  /\ WF_allvars(ChanCall)
  /\ WF_allvars(ProducerLoop) /\ WF_allvars(ProducerEval)
  /\ WF_allvars(Rendezvous) /\ WF_allvars(ProducerIncr)
  /\ WF_allvars(ConsumerLoop) /\ WF_allvars(ConsumerIncr)

\* --------------------------------------------------------------- EachCtx
\* c.EachCtx(ctx, fn) with a callback that calls cancel() while it visits
\* index cancelAt, and another goroutine that may cancel ctx at any moment.
InitCtxRun ==
  /\ InitHeap /\ InitChan
  /\ ctxDone = FALSE /\ ePc = "idle" /\ eI = 0 /\ visited = << >>
  /\ cancelAt \in (0 - 1)..(MaxLen - 1)

\* for i, v := range c.All(): the slice is evaluated once
EachCtxCall ==
  /\ ePc = "idle"
  /\ ePc' = "check" /\ eI' = 0
  /\ UNCHANGED <<ctxDone, visited, cancelAt, vars_heap, vars_chan>>

\* an Each: the loop passes every element to fn, whatever the context says
EachCtxNoSelect ==
  /\ ePc = "check"
  /\ IF eI >= Count(vars["c"])
       THEN ePc' = "done" /\ visited' = visited
       ELSE /\ ePc' = "visit"
            /\ visited' = Append(visited,
                                 <<eI, Elems(heap, vars["c"])[eI + 1]>>)
  /\ UNCHANGED <<ctxDone, eI, cancelAt, vars_heap, vars_chan>>

\* the range condition, then select { case <-ctx.Done(): return; default: fn(i, v) }
EachCtxSelect ==
  /\ ePc = "check"
  /\ IF eI >= Count(vars["c"]) \/ ctxDone
       THEN ePc' = "done" /\ visited' = visited
       ELSE /\ ePc' = "visit"
            /\ visited' = Append(visited,
                                 <<eI, Elems(heap, vars["c"])[eI + 1]>>)
  /\ UNCHANGED <<ctxDone, eI, cancelAt, vars_heap, vars_chan>>

\* fn(i, v) runs to its end and returns; it calls cancel() at index cancelAt
EachCtxVisit ==
  /\ ePc = "visit"
  /\ ctxDone' = (ctxDone \/ eI = cancelAt)
  /\ eI' = eI + 1 /\ ePc' = "check"
  /\ UNCHANGED <<visited, cancelAt, vars_heap, vars_chan>>

\* another goroutine calls cancel()
CtxCancel ==
  /\ ePc \in {"check", "visit"} /\ ~ctxDone
  /\ ctxDone' = TRUE
  /\ UNCHANGED <<ePc, eI, visited, cancelAt, vars_heap, vars_chan>>

NextCtx ==
  \/ EachCtxCall
  \/ EachCtxSelect
  \/ EachCtxVisit
  \/ CtxCancel

SpecCtx == InitCtxRun /\ [][NextCtx]_allvars

\* ================================================================ claims
\* the receiver's elements before the last call, 0-based
PreAt(i) == last.pre[i + 1]
PreLen == Len(last.pre)
ValidIndex(i) == 0 <= i /\ i < PreLen

\* C1: SafeAt(i) returns a nil error and element i iff 0 <= i < Count(),
\* and the zero value with ErrNoItem for every other i (negative, equal to
\* Count, beyond Count), without panicking.
C1_SafeAtErrorIffOutOfRange ==
  last.op = "SafeAt" =>
    /\ ~last.panic
    /\ IF ValidIndex(last.i)
         THEN last.err = "nil" /\ last.val = PreAt(last.i)
         ELSE last.err = "ErrNoItem" /\ last.val = Zero

\* C2: At(i) never panics: it returns element i when 0 <= i < Count() and
\* the zero value for every other i, negative i and i = Count() included.
C2_AtNeverPanics ==
  last.op = "At" =>
    /\ ~last.panic
    /\ last.val = (IF ValidIndex(last.i) THEN PreAt(last.i) ELSE Zero)

\* what Set(i, v) is to leave in a receiver that held pre: pre with element
\* i replaced when i is inside, else pre, zero values up to i-1, then v
SetResult(pre, i, v) ==
  [k \in 1..Max(Len(pre), i + 1) |->
     IF k = i + 1 THEN v ELSE IF k <= Len(pre) THEN pre[k] ELSE Zero]

\* C3: for every index i >= 0, Set(i, v) completes; with i < n it overwrites
\* element i and keeps the length, with i >= n (i = n included) it grows the
\* receiver to length i+1, keeps elements 0..n-1, zero-fills n..i-1 and puts
\* v at i.
C3_SetOverwritesOrGrows ==
  (last.op = "Set" /\ last.i >= 0) =>
    /\ ~last.panic
    /\ last.post = SetResult(last.pre, last.i, last.v)

\* C4: SafeSet(i, v) returns nil and overwrites element i when
\* 0 <= i < Count(); for every other i (i = Count() included) it returns
\* ErrIndexOutOfRange, does not panic and leaves the receiver as it was.
C4_SafeSetRejectsOutOfBounds ==
  last.op = "SafeSet" =>
    /\ ~last.panic
    /\ IF ValidIndex(last.i)
         THEN /\ last.err = "nil"
              /\ last.post = [last.pre EXCEPT ![last.i + 1] = last.v]
         ELSE /\ last.err = "ErrIndexOutOfRange"
              /\ last.post = last.pre

\* C5: r = v.Append(xs...) returns v's former contents followed by xs in
\* argument order, and leaves v itself with the Count and the contents it
\* had before the call.
C5_AppendLeavesReceiver ==
  last.op = "Append" =>
    /\ ~last.panic
    /\ last.ret = last.pre \o last.xs
    /\ last.post = last.pre

\* an Append to a non-empty receiver that found room in the receiver's own
\* array: the result shares the array, the receiver still shows its element
C5_Witness ==
  /\ last.op = "Append" /\ Len(last.xs) = 1 /\ PreLen = 1
  /\ last.dst # last.recv
  /\ vars[last.dst].arr = vars[last.recv].arr
  /\ last.xs[1] # last.pre[1]
  /\ last.ret = last.pre \o last.xs
  /\ Elems(heap, vars[last.recv]) = last.pre

\* C6 as stated: after c.Append(xs...) with non-empty xs the receiver c
\* itself has Count increased by len(xs) and ends with xs; Concat(other)
\* changes its receiver the same way with other's elements.
C6_AppendMutatesReceiver ==
  (last.op \in {"Append", "Concat"} /\ Len(last.xs) > 0) =>
    /\ Len(last.post) = PreLen + Len(last.xs)
    /\ SubSeq(last.post, PreLen + 1, Len(last.post)) = last.xs

\* C6 amended: after r = c.Append(xs...) with non-empty xs it is the returned
\* collection r that has Count increased by len(xs) and ends with xs in
\* argument order, while the receiver keeps its Count; Concat(other) returns
\* the same with other's elements and keeps its receiver's Count as well.
C6_AppendExtendsResultOnly ==
  (last.op \in {"Append", "Concat"} /\ Len(last.xs) > 0) =>
    /\ Len(last.ret) = PreLen + Len(last.xs)
    /\ SubSeq(last.ret, PreLen + 1, Len(last.ret)) = last.xs
    /\ Len(last.post) = PreLen

\* a Concat of a non-empty collection with another one of two elements
C6_Witness ==
  /\ last.op = "Concat" /\ Len(last.xs) = 2 /\ PreLen >= 1
  /\ last.xs[1] # last.xs[2]
  /\ Len(last.ret) = PreLen + 2 /\ Len(last.post) = PreLen

\* Pop(n) with 0 <= n <= L leaves the receiver its former elements
\* 0..L-n-1 and returns the former elements L-n..L-1, in order.
PopSplitsAtEnd ==
  (last.op = "Pop" /\ 0 <= last.i /\ last.i <= PreLen) =>
    /\ ~last.panic
    /\ last.post = SubSeq(last.pre, 1, PreLen - last.i)
    /\ last.ret = SubSeq(last.pre, PreLen - last.i + 1, PreLen)

\* a second Pop on the same variable starts from what the first one left
PopChains ==
  (/\ last.op = "Pop" /\ ~last.panic /\ last.dst # last.recv
   /\ last'.op = "Pop" /\ last'.recv = last.recv
   /\ 0 <= last'.i /\ last'.i <= Len(last.post)) =>
    /\ last'.pre = last.post
    /\ last'.post = SubSeq(last.post, 1, Len(last.post) - last'.i)
    /\ last'.ret =
         SubSeq(last.post, Len(last.post) - last'.i + 1, Len(last.post))

\* C7: p = C.Pop(n) with 0 <= n <= L leaves the receiver exactly its former
\* elements 0..L-n-1 and p holds exactly the former elements L-n..L-1 in
\* order; repeated, each Pop removes from the end of what the previous Pop
\* left.
C7_PopRemovesFromEnd == []PopSplitsAtEnd /\ [][PopChains]_allvars

\* the second of two Pops, each of one element, on a three-element receiver
C7_Witness ==
  /\ last.op = "Pop" /\ ops = 2 /\ last.i = 1 /\ PreLen = 1
  /\ Defined("a") /\ Defined("b")
  /\ Len(last.ret) = 1 /\ Len(last.post) = 0
  /\ Elems(heap, vars["a"]) # Elems(heap, vars["b"])

\* the collection being streamed or iterated
Streamed == Elems(heap, vars["c"])

\* C8: a consumer that performs exactly Count() receives on the channel of
\* Chan() obtains exactly the elements of All(), each once, in index order,
\* whatever the interleaving of producer and consumer: what it has received
\* is at every moment the first elements of All(), and all of them once it
\* has finished.
C8_ChanDeliversAllInOrder ==
  /\ chVals = SubSeq(Streamed, 1, Len(chVals))
  /\ (chCons = "done" /\ chQuota = Len(Streamed)) => chVals = Streamed

\* the consumer has finished its Count() = 2 receives of two distinct values
C8_Witness ==
  /\ chCons = "done" /\ chQuota = 2 /\ Len(Streamed) = 2
  /\ Streamed[1] # Streamed[2] /\ chVals = Streamed

\* C9: the producer goroutine of Chan() terminates iff the consumer
\* receives exactly Count() items: it only ever terminates after Count()
\* receives, after Count() receives it does terminate, and with a consumer
\* that stops after k < Count() receives it ends up blocked on the send of
\* item k and stays there for ever.
C9_ProducerTerminatesIffDrained ==
  /\ [](chPc = "done" => Len(chVals) = Len(Streamed))
  /\ ((chQuota >= Len(Streamed)) ~> (chPc = "done"))
  /\ ((chQuota < Len(Streamed)) ~>
        [](chPc = "send" /\ chI = chQuota /\ chCons = "done"))

\* the consumer stopped after 1 of 2 items; the producer is stuck sending
\* item 1
C9_Witness ==
  /\ chCons = "done" /\ chQuota = 1 /\ chRecvs = 1 /\ Len(Streamed) = 2
  /\ chPc = "send" /\ chI = 1

\* the <<index, value>> pairs of the collection, in index order
AllPairs == [k \in 1..Len(Streamed) |-> <<k - 1, Streamed[k]>>]

\* C10: EachCtx visits a prefix of the collection in index order; once the
\* context is cancelled (by the callback during a visit or by someone else)
\* no further element is passed to the callback; without cancellation every
\* element is visited exactly once in order; a visit that has started is
\* left only by the callback's return, cancelled or not.
C10_EachCtxStopsAtCancel ==
  /\ [](visited = SubSeq(AllPairs, 1, Len(visited)))
  /\ [][ctxDone => visited' = visited]_allvars
  /\ []((ePc = "done" /\ ~ctxDone) => visited = AllPairs)
  /\ [][(ePc = "visit" /\ ePc' # "visit") =>
          (ePc' = "check" /\ eI' = eI + 1 /\ visited' = visited)]_allvars

\* the callback cancelled while visiting element 0 of two: element 1 was
\* never visited
C10_Witness ==
  /\ ePc = "done" /\ ctxDone /\ cancelAt = 0
  /\ Len(Streamed) = 2 /\ visited = <<AllPairs[1]>>

\* C18: collections obtained by Append are independent: after
\* a = c.Append(x), a later Append (on c, on another result, on a view)
\* whose result goes to another variable leaves a.All() equal to c's
\* contents followed by x.
C18_AppendResultsIndependent ==
  [][(/\ last.op = "Append" /\ last.dst # last.recv
      /\ last'.op = "Append" /\ last'.dst # last.dst)
       => Elems(heap', vars'[last.dst]) = last.pre \o last.xs]_allvars

\* C19: the collection p returned by c.Pop(n), n >= 1, keeps the removed
\* elements: a later Append or Concat on c, or a Set at an index inside c's
\* new length, leaves p.All() as it was, and a later call on p leaves
\* c.All() as it was.
C19_PoppedStaysIntact ==
  [][(/\ last.op = "Pop" /\ ~last.panic /\ last.i >= 1
      /\ last.dst # last.recv
      /\ ~last'.panic)
       => /\ (/\ last'.recv = last.recv
              /\ \/ last'.op \in {"Append", "Concat"} /\ last'.dst # last.dst
                 \/ last'.op = "Set" /\ 0 <= last'.i
                      /\ last'.i < Len(last.post))
               => Elems(heap', vars'[last.dst]) = last.ret
          /\ (/\ last'.recv = last.dst
              /\ last'.op \in {"Append", "Concat", "Set", "SafeSet", "Pop"}
              /\ last'.dst # last.recv)
               => Elems(heap', vars'[last.recv]) = last.post]_allvars

\* ------------------------------------- claims on Chunk, Unique, Split, ...
RECURSIVE Flatten(_)
Flatten(groups) ==
  IF groups = << >> THEN << >> ELSE Head(groups) \o Flatten(Tail(groups))

FirstIndex(s, v) == CHOOSE k \in 1..Len(s) : s[k] = v /\ \A j \in 1..(k - 1) : s[j] # v
Range(s) == {s[k] : k \in 1..Len(s)}

UniqueKeepsFirsts ==
  last.op = "Unique" =>
    /\ ~last.panic
    /\ Range(last.ret) = Range(last.pre)
    /\ \A p, q \in 1..Len(last.ret) :
         p < q => /\ last.ret[p] # last.ret[q]
                  /\ FirstIndex(last.pre, last.ret[p])
                       < FirstIndex(last.pre, last.ret[q])
    /\ last.post = last.pre

UniqueChains ==
  (/\ last.op = "Unique" /\ ~last.panic
   /\ last'.op = "Unique" /\ last'.recv = last.dst)
    => /\ last'.pre = last.ret
       /\ last'.ret = last.ret

\* C12: Unique returns each distinct value of the collection once, ordered
\* by the value's first occurrence, and Unique of that result has the same
\* contents.
C12_UniqueFirstOccurrences ==
  []UniqueKeepsFirsts /\ [][UniqueChains]_allvars

\* a value that comes back after another one: [x, y, x] gives [x, y]
C12_Witness ==
  /\ last.op = "Unique" /\ Len(last.pre) = 3 /\ Len(last.ret) = 2
  /\ last.pre[1] = last.pre[3] /\ last.pre[1] # last.pre[2]

\* C13: for 0 <= i <= Count, Split(i) returns the pair (Before(i), After(i)):
\* the elements at [0, i) and those at [i, Count), which together are All().
C13_SplitIsBeforeAfter ==
  (last.op = "Split" /\ 0 <= last.i /\ last.i <= Len(last.pre)) =>
    LET L == Len(last.pre)
        c == vars[last.recv]
    IN /\ ~last.panic
       /\ Len(last.ret) = 2
       /\ last.ret[1] = SubSeq(last.pre, 1, last.i)
       /\ last.ret[2] = SubSeq(last.pre, last.i + 1, L)
       /\ last.ret[1] \o last.ret[2] = last.pre
       /\ last.recv = "c" =>
            /\ last.ret[1] = Elems(heap, Before(heap, c, last.i).s)
            /\ last.ret[2] = Elems(heap, After(heap, c, last.i).s)
       /\ Elems(heap, vars["a"]) = last.ret[1]
       /\ Elems(heap, vars["b"]) = last.ret[2]

\* a split strictly inside a collection that is itself a view of its array
C13_Witness ==
  /\ last.op = "Split" /\ ~last.panic
  /\ Len(last.pre) = 2 /\ last.i = 1
  /\ Len(heap[vars[last.recv].arr]) = 3
  /\ last.ret[1] # last.ret[2]

ReverseMirrors ==
  last.op = "Reverse" =>
    /\ ~last.panic
    /\ Len(last.ret) = Len(last.pre)
    /\ \A j \in 0..(Len(last.pre) - 1) :
         last.ret[j + 1] = last.pre[Len(last.pre) - j]
    /\ last.post = last.pre

ReverseChains ==
  (/\ last.op = "Reverse" /\ ~last.panic
   /\ last'.op = "Reverse" /\ last'.recv = last.dst)
    => last'.ret = last.pre

\* C14: Reverse returns a collection of the same length whose element j is
\* the receiver's element Count-1-j (the empty and the one-element collection
\* included), and the Reverse of that result has the receiver's contents.
C14_ReverseInvolution ==
  []ReverseMirrors /\ [][ReverseChains]_allvars

C14_Witness ==
  /\ last.op = "Reverse" /\ Len(last.pre) = 3
  /\ last.pre[1] # last.pre[3] /\ last.ret[1] = last.pre[3]
  /\ ops = 2 /\ last.recv = "a"

\* the separator after element k of n
Separator(format, k, n) ==
  IF k = n - 1 /\ format.Final # << >> THEN format.Final ELSE format.Between

RECURSIVE Joined(_, _, _)
Joined(s, format, k) ==
  IF k = 0 THEN << >>
  ELSE IF k = 1 THEN Sprintf(s[1])
  ELSE Joined(s, format, k - 1) \o Separator(format, k - 1, Len(s))
         \o Sprintf(s[k])

\* C15: Join returns the stringified elements in order with n-1 separators
\* and none leading or trailing: "" for n = 0, the element for n = 1, and for
\* n >= 2 Final (Between when Final is empty) between the last two elements
\* and Between between every earlier pair.
C15_JoinSeparators ==
  last.op = "Join" => last.ret = Joined(last.pre, last.v, Len(last.pre))

\* three elements joined with ListJoin: "x, y and z"
C15_Witness ==
  /\ last.op = "Join" /\ Len(last.pre) = 3 /\ last.v = ListJoin
  /\ last.ret = Sprintf(last.pre[1]) \o <<",", " ">> \o Sprintf(last.pre[2])
                  \o <<" ", "a", "n", "d", " ">> \o Sprintf(last.pre[3])

\* -------------------------------------------------------- claims on FromRange
Abs(x) == IF x < 0 THEN 0 - x ELSE x

\* what FromRange(first, last) is to return: |last - first| + 1 elements from
\* first to last in steps of +1 or -1
IsRange(first, lst, s) ==
  /\ Len(s) = Abs(lst - first) + 1
  /\ s[1] = first
  /\ s[Len(s)] = lst
  /\ \A k \in 1..(Len(s) - 1) :
       s[k + 1] - s[k] = (IF first <= lst THEN 1 ELSE 0 - 1)

\* C16: for all integers first and last, FromRange(first, last) returns
\* |last - first| + 1 elements, the first being first and the last being last,
\* consecutive ones differing by +1 when first <= last and by -1 otherwise.
C16_FromRangeAllIntegers ==
  last.op = "FromRange" => ~last.panic /\ IsRange(last.i, last.v, last.ret)

\* C16, amended: the same for every first and last whose |last - first| + 1
\* elements make can allocate.
C16_FromRangeWithinAlloc ==
  (last.op = "FromRange" /\ Abs(last.v - last.i) + 1 <= MaxAlloc)
    => ~last.panic /\ IsRange(last.i, last.v, last.ret)

\* a descending range across zero
C16_Witness ==
  /\ last.op = "FromRange" /\ ~last.panic
  /\ last.i = 1 /\ last.v = 0 - 1
  /\ last.ret = <<1, 0, 0 - 1>>

\* ------------------------------------------- claims on the copying combinators
CopyOps == {"Filter", "Map", "Unique", "Diff", "Reverse", "Prepend"}

\* C17: Filter, Map, Unique, Diff, Reverse and Prepend leave the receiver's
\* contents unchanged and return a collection that shares no storage with
\* it: a following Set or SafeSet at a valid index of the receiver leaves the
\* result's contents as returned, and one on the result leaves the receiver's.
C17_CopiesShareNoStorage ==
  /\ [](last.op \in CopyOps /\ ~last.panic => last.post = last.pre)
  /\ [][(/\ last.op \in CopyOps /\ ~last.panic /\ last.dst # last.recv
         /\ last'.op \in {"Set", "SafeSet"}
         /\ 0 <= last'.i /\ last'.i < Len(last'.pre)
         /\ ~last'.panic /\ last'.err = "nil")
          => /\ last'.recv = last.recv
                  => Elems(heap', vars'[last.dst]) = last.ret
             /\ last'.recv = last.dst
                  => Elems(heap', vars'[last.recv]) = last.post]_allvars

============================================================================
